---- MODULE Spec2Model ----
(***************************************************************************)
(* Taxonomy resolution of BLAST hits (simulate_metagenomes/blast_sorter). *)
(* get_coverages merges alignment spans into covered regions; assign_tax  *)
(* picks, for one contig, the hit(s) that represent its origin.           *)
(*                                                                         *)
(* Two entry points are modelled, each with its own specification:        *)
(*   SpecCov  a direct call of get_coverages, one loop iteration a step;  *)
(*   Spec     a call of assign_tax, one statement block a step.           *)
(***************************************************************************)
EXTENDS Integers, Sequences, FiniteSets

VARIABLES
    pc,         \* position in the running function
    spans,      \* get_coverages: zip(starts, ends), the argument
    i,          \* get_coverages: index of the span the loop handles next
    coverages,  \* get_coverages: the list being built / assign_tax: its result
    arg,        \* assign_tax: the rows the caller built its table from
    in_df,      \* assign_tax: the caller's table object, as it is now
    df,         \* assign_tax: the local name df after it was rebound
    k,          \* assign_tax: index of the interval the chimera loop handles next
    out_df,     \* assign_tax: the table returned
    returned    \* assign_tax: which object is returned ("input" or "new")

vars == <<pc, spans, i, coverages, arg, in_df, df, k, out_df, returned>>

----------------------------------------------------------------------------
(* Bounds of the model *)

\* Most hits in one call of assign_tax.
MaxHits == 3
\* Query coordinates are 1..MaxPos.
MaxPos == 3
\* e-values are 0..MaxEVal.
MaxEVal == 1
\* Most spans in one direct call of get_coverages.
MaxSpans == 3
\* Coordinates of a direct call of get_coverages are 1..MaxCovPos.
MaxCovPos == 4

\* The contig's length, shared by every hit of a call.
QueryLength == MaxPos
EVals == 0..MaxEVal
\* Two lengths below the query length, the query length, one above.
AlignLens == (QueryLength - 2)..(QueryLength + 1)
\* Well-formed spans: 1 <= start <= end.
HitSpans == {s \in (1..MaxPos) \X (1..MaxPos) : s[1] <= s[2]}

----------------------------------------------------------------------------
(* Helpers on sequences *)

Max(a, b) == IF a >= b THEN a ELSE b

RECURSIVE SelectSeq2(_, _)
\* The subsequence of s whose elements are in the set keep.
SelectSeq2(s, keep) ==
    IF s = <<>> THEN <<>>
    ELSE IF Head(s) \in keep THEN <<Head(s)>> \o SelectSeq2(Tail(s), keep)
    ELSE SelectSeq2(Tail(s), keep)

\* The permutations of 1..n.
Perms(n) == {p \in [1..n -> 1..n] : \A a, b \in 1..n : a # b => p[a] # p[b]}

----------------------------------------------------------------------------
(* get_coverages *)

\* The overlap test with the end excluded: touching spans would not merge.
Overlaps_EndExcluded(cov, start) == cov[1] <= start /\ start < cov[2]

\* The overlap test with the start excluded: a span starting where a region
\* starts would open a second region over the first.
Overlaps_StartExcluded(cov, start) == cov[1] < start /\ start <= cov[2]

\* cov_start <= start <= cov_end
Overlaps(cov, start) == cov[1] <= start /\ start <= cov[2]

\* np.where(overlapping)[0]: the indices of the accumulated regions that the
\* span's start falls in.
Overlapping(covs, start) == {j \in 1..Len(covs) : Overlaps(covs[j], start)}

\* coverages[i] = (cov_start, max(end, cov_end))
MergeInto(covs, j, end) ==
    [covs EXCEPT ![j] = <<covs[j][1], Max(end, covs[j][2])>>]

\* One iteration of the loop on a list that has exactly one or no overlapping
\* region (int() of an array of another size raises).
CoverageStep(covs, span) ==
    IF Overlapping(covs, span[1]) # {}
    THEN MergeInto(covs, CHOOSE j \in Overlapping(covs, span[1]) : TRUE, span[2])
    ELSE Append(covs, span)

\* list.remove((1, 1)): drops the first element equal to (1, 1).
RemoveSentinel(covs) ==
    IF \E j \in 1..Len(covs) : covs[j] = <<1, 1>>
    THEN LET j == CHOOSE j \in 1..Len(covs) :
                    /\ covs[j] = <<1, 1>>
                    /\ \A m \in 1..(j - 1) : covs[m] # <<1, 1>>
         IN  SubSeq(covs, 1, j - 1) \o SubSeq(covs, j + 1, Len(covs))
    ELSE covs

RECURSIVE CoverageLoop(_, _)
\* The loop over zip(starts, ends), from the accumulated list covs. raised is
\* set when some iteration finds more than one overlapping region.
CoverageLoop(covs, rest) ==
    IF rest = <<>> THEN [raised |-> FALSE, covs |-> covs]
    ELSE IF Cardinality(Overlapping(covs, Head(rest)[1])) > 1
    THEN [raised |-> TRUE, covs |-> covs]
    ELSE CoverageLoop(CoverageStep(covs, Head(rest)), Tail(rest))

\* get_coverages(starts, ends) as a function of zip(starts, ends).
GetCoverages(sp) ==
    LET r == CoverageLoop(<<<<1, 1>>>>, sp)
    IN  IF r.raised THEN r ELSE [raised |-> FALSE, covs |-> RemoveSentinel(r.covs)]

\* Direct calls: span lists sorted ascending by start, starts >= 1.
CovSpans == (1..MaxCovPos) \X (1..MaxCovPos)

SortedSpanLists ==
    UNION {{s \in [1..n -> CovSpans] : \A a \in 1..(n - 1) : s[a][1] <= s[a + 1][1]}
           : n \in 0..MaxSpans}

InitCov ==
    /\ pc = "cov_loop"
    /\ spans \in SortedSpanLists
    /\ i = 1
    /\ coverages = <<<<1, 1>>>>
    /\ arg = <<>>
    /\ in_df = <<>>
    /\ df = <<>>
    /\ k = 0
    /\ out_df = <<>>
    /\ returned = "none"

tax_vars == <<arg, in_df, df, k, out_df, returned>>

\* An iteration whose span overlaps an accumulated region: merge, or raise
\* when the index lookup sees several regions.
CovMerge ==
    /\ pc = "cov_loop"
    /\ i <= Len(spans)
    /\ Overlapping(coverages, spans[i][1]) # {}
    /\ IF Cardinality(Overlapping(coverages, spans[i][1])) = 1
       THEN /\ coverages' = CoverageStep(coverages, spans[i])
            /\ i' = i + 1
            /\ pc' = pc
       ELSE /\ pc' = "cov_raised"
            /\ UNCHANGED <<coverages, i>>
    /\ UNCHANGED <<spans, tax_vars>>

\* An iteration whose span overlaps nothing: append it.
CovAppend ==
    /\ pc = "cov_loop"
    /\ i <= Len(spans)
    /\ Overlapping(coverages, spans[i][1]) = {}
    /\ coverages' = CoverageStep(coverages, spans[i])
    /\ i' = i + 1
    /\ UNCHANGED <<pc, spans, tax_vars>>

\* After the loop: drop (1, 1) if present, return.
CovReturn ==
    /\ pc = "cov_loop"
    /\ i > Len(spans)
    /\ coverages' = RemoveSentinel(coverages)
    /\ pc' = "cov_done"
    /\ UNCHANGED <<i, spans, tax_vars>>

NextCov == CovMerge \/ CovAppend \/ CovReturn

SpecCov == InitCov /\ [][NextCov]_vars

----------------------------------------------------------------------------
(* Tables: a DataFrame is the sequence of its rows, a row a record *)

\* make_raw_df: rows of seven values become a table with the seven columns.
MakeRawDf(rows) ==
    [r \in 1..Len(rows) |->
        [query_id |-> rows[r][1], hit_id |-> rows[r][2], e_val |-> rows[r][3],
         query_length |-> rows[r][4], alignment_length |-> rows[r][5],
         start |-> rows[r][6], end |-> rows[r][7]]]

\* make_sorted_df: rows of eight values, the eighth the origin.
MakeSortedDf(rows) ==
    [r \in 1..Len(rows) |->
        [query_id |-> rows[r][1], hit_id |-> rows[r][2], e_val |-> rows[r][3],
         query_length |-> rows[r][4], alignment_length |-> rows[r][5],
         start |-> rows[r][6], end |-> rows[r][7], origin |-> rows[r][8]]]

\* hit['origin'] = o on one row: the seven fields kept, origin set.
SetOrigin(hit, o) ==
    [query_id |-> hit.query_id, hit_id |-> hit.hit_id, e_val |-> hit.e_val,
     query_length |-> hit.query_length,
     alignment_length |-> hit.alignment_length,
     start |-> hit.start, end |-> hit.end, origin |-> o]

\* list(hit) of a row that carries an origin.
ListOf(hit) ==
    <<hit.query_id, hit.hit_id, hit.e_val, hit.query_length,
      hit.alignment_length, hit.start, hit.end, hit.origin>>

\* The column assignment with the tag of the chimera branch whatever o is.
TagOrigin_AlwaysChimera(d, o) == [r \in 1..Len(d) |-> SetOrigin(d[r], "chimera")]

\* df['origin'] = o: the column is added to (or overwritten in) every row.
TagOrigin(d, o) == [r \in 1..Len(d) |-> SetOrigin(d[r], o)]

\* df.sort_values(by=col, ascending=True) with the default kind='quicksort',
\* which is not a stable sort: every ordering of the rows that is ascending
\* in col is a possible result; rows equal in col come in any order.
SortValues(d, col) ==
    {[j \in 1..Len(d) |-> d[p[j]]] :
        p \in {q \in Perms(Len(d)) :
                 \A a \in 1..(Len(d) - 1) : d[q[a]][col] <= d[q[a + 1]][col]}}

\* Row a comes before row b in
\* sort_values(by=['e_val', 'alignment_length'], ascending=[True, False]):
\* a sort on several columns is a stable lexsort, so rows equal in both keep
\* the order they have in d.
RanksBefore(d, a, b) ==
    \/ d[a].e_val < d[b].e_val
    \/ d[a].e_val = d[b].e_val /\ d[a].alignment_length > d[b].alignment_length
    \/ d[a].e_val = d[b].e_val /\ d[a].alignment_length = d[b].alignment_length
       /\ a < b

SortByEValLength(d) ==
    [j \in 1..Len(d) |->
        d[CHOOSE a \in 1..Len(d) :
            Cardinality({b \in 1..Len(d) : RanksBefore(d, b, a)}) = j - 1]]

\* df.head(1)
HeadOne(d) == IF d = <<>> THEN <<>> ELSE <<d[1]>>

\* df[(df['start'] >= start) & (df['end'] <= end)]
Within(d, cov) ==
    SelectSeq2(d, {h \in {d[r] : r \in 1..Len(d)} :
                      h.start >= cov[1] /\ h.end <= cov[2]})

\* Rows with query_length == alignment_length / query_length < alignment_length.
FullLength(d) ==
    {r \in 1..Len(d) : d[r].query_length = d[r].alignment_length}

OverLength(d) ==
    {r \in 1..Len(d) : d[r].query_length < d[r].alignment_length}

\* The row the iterrows() scan meets first among the rows in s.
FirstOf(s) == CHOOSE r \in s : \A m \in s : r <= m

\* zip(df['start'], df['end'])
SpansOf(d) == [r \in 1..Len(d) |-> <<d[r].start, d[r].end>>]

----------------------------------------------------------------------------
(* assign_tax *)

\* The attributes a hit varies in: e_val, alignment_length, (start, end).
HitAttrs == EVals \X AlignLens \X HitSpans

\* The rows of a hit set of one contig: hit_id is the position in the input.
RawRows(f) ==
    [j \in DOMAIN f |->
        <<"k1_1", j, f[j][1], QueryLength, f[j][2], f[j][3][1], f[j][3][2]>>]

\* assign_tax is called with a table of 1..MaxHits hits.
Init ==
    /\ pc = "call"
    /\ \E n \in 1..MaxHits : \E f \in [1..n -> HitAttrs] :
          arg = MakeRawDf(RawRows(f))
    /\ in_df = arg
    /\ df = <<>>
    /\ coverages = <<>>
    /\ k = 0
    /\ out_df = <<>>
    /\ returned = "none"
    /\ spans = <<>>
    /\ i = 0

cov_vars == <<spans, i>>

\* len(df.index) == 1: the argument itself gets the column and is returned.
SingleHit ==
    /\ pc = "call"
    /\ Len(in_df) = 1
    /\ in_df' = TagOrigin(in_df, "single")
    /\ out_df' = in_df'
    /\ returned' = "input"
    /\ pc' = "done"
    /\ UNCHANGED <<arg, df, coverages, k, cov_vars>>

\* df = df.sort_values(by='e_val', ascending=True): df is rebound to a new table.
SortEVal ==
    /\ pc = "call"
    /\ Len(in_df) # 1
    /\ df' \in SortValues(in_df, "e_val")
    /\ pc' = "sorted"
    /\ UNCHANGED <<arg, in_df, coverages, k, out_df, returned, cov_vars>>

\* First loop: the first row in df order with query_length == alignment_length.
FullLengthHit ==
    /\ pc = "sorted"
    /\ FullLength(df) # {}
    /\ out_df' = MakeSortedDf(
                    <<ListOf(SetOrigin(df[FirstOf(FullLength(df))], "single"))>>)
    /\ returned' = "new"
    /\ pc' = "done"
    /\ UNCHANGED <<arg, in_df, df, coverages, k, cov_vars>>

\* Second loop: the first row in df order with query_length < alignment_length.
OverLengthHit ==
    /\ pc = "sorted"
    /\ FullLength(df) = {}
    /\ OverLength(df) # {}
    /\ out_df' = MakeSortedDf(
                    <<ListOf(SetOrigin(df[FirstOf(OverLength(df))], "single"))>>)
    /\ returned' = "new"
    /\ pc' = "done"
    /\ UNCHANGED <<arg, in_df, df, coverages, k, cov_vars>>

\* Neither loop returned: sort by start, get_coverages; out_df = pd.DataFrame().
RegionAnalysis ==
    /\ pc = "sorted"
    /\ FullLength(df) = {}
    /\ OverLength(df) = {}
    /\ \E start_sorted_df \in SortValues(df, "start") :
          LET r == GetCoverages(SpansOf(start_sorted_df))
          IN  /\ coverages' = r.covs
              /\ pc' = IF r.raised THEN "raised" ELSE "region"
    /\ k' = 1
    /\ UNCHANGED <<arg, in_df, df, out_df, returned, cov_vars>>

\* len(coverages) == 1: the best row of all of df.
SingleRegion ==
    /\ pc = "region"
    /\ Len(coverages) = 1
    /\ out_df' = TagOrigin(HeadOne(SortByEValLength(df)), "single")
    /\ returned' = "new"
    /\ pc' = "done"
    /\ UNCHANGED <<arg, in_df, df, coverages, k, cov_vars>>

\* One iteration of the loop over coverages.
ChimeraStep ==
    /\ pc = "region"
    /\ Len(coverages) # 1
    /\ k <= Len(coverages)
    /\ df' = TagOrigin(df, "chimera")
    /\ out_df' = out_df \o HeadOne(SortByEValLength(Within(df', coverages[k])))
    /\ k' = k + 1
    /\ UNCHANGED <<pc, arg, in_df, coverages, returned, cov_vars>>

\* The loop is over: reset_index, return.
ChimeraReturn ==
    /\ pc = "region"
    /\ Len(coverages) # 1
    /\ k > Len(coverages)
    /\ returned' = "new"
    /\ pc' = "done"
    /\ UNCHANGED <<arg, in_df, df, coverages, k, out_df, cov_vars>>

Next ==
    \/ SingleHit
    \/ SortEVal
    \/ FullLengthHit
    \/ OverLengthHit
    \/ RegionAnalysis
    \/ SingleRegion
    \/ ChimeraStep
    \/ ChimeraReturn

Spec == Init /\ [][Next]_vars

----------------------------------------------------------------------------
(* Properties of get_coverages, checked under SpecCov *)

\* Every span has start <= end (starts are >= 1 in every call).
WellFormed(sp) == \A a \in 1..Len(sp) : sp[a][1] <= sp[a][2]

\* The query positions a list of (start, end) pairs covers.
Covered(sp) == UNION {sp[a][1]..sp[a][2] : a \in 1..Len(sp)}

\* C6: for spans sorted by start with 1 <= start <= end, the positions the
\* returned intervals cover are exactly the positions the input spans cover.
C6_CoverageComplete ==
    (pc = "cov_done" /\ WellFormed(spans)) => Covered(coverages) = Covered(spans)

\* C7: for spans sorted by start with 1 <= start <= end, the returned
\* intervals share no coordinate pairwise and their starts ascend strictly.
C7_DisjointAscending ==
    (pc = "cov_done" /\ WellFormed(spans)) =>
        \A a, b \in 1..Len(coverages) :
            a < b => /\ coverages[a][1] < coverages[b][1]
                     /\ (coverages[a][1]..coverages[a][2])
                          \cap (coverages[b][1]..coverages[b][2]) = {}

\* C7's case: two spans touching at a coordinate were merged, a span after
\* a gap stayed separate.
C7_Witness ==
    /\ pc = "cov_done"
    /\ spans = <<<<1, 2>>, <<2, 3>>, <<4, 4>>>>
    /\ coverages = <<<<1, 3>>, <<4, 4>>>>

\* C9: for spans sorted by start with start >= 1, no iteration finds more
\* than one accumulated interval (the sentinel included) that contains the
\* incoming span's start, and the index lookup never raises.
C9_AtMostOneTarget ==
    /\ pc # "cov_raised"
    /\ (pc = "cov_loop" /\ i <= Len(spans)) =>
          Cardinality(Overlapping(coverages, spans[i][1])) <= 1

\* C9's case: an iteration with the sentinel and two more intervals
\* accumulated, exactly one of which contains the incoming start.
C9_Witness ==
    /\ pc = "cov_loop"
    /\ i <= Len(spans)
    /\ Len(coverages) >= 3
    /\ Cardinality(Overlapping(coverages, spans[i][1])) = 1

----------------------------------------------------------------------------
(* Properties of assign_tax, checked under Spec *)

\* The hit of d that ranks first by ascending e_val, then descending
\* alignment_length, then order in d.
BestOf(d) ==
    d[CHOOSE a \in 1..Len(d) : \A b \in 1..Len(d) : b # a => RanksBefore(d, a, b)]

\* The first row of d, in the order of d, among the rows in s with the lowest
\* e_val.
LowestEVal(d, s) ==
    d[CHOOSE a \in s :
        \A b \in s : \/ d[a].e_val < d[b].e_val
                     \/ d[a].e_val = d[b].e_val /\ a <= b]

\* No hit of the input reaches the query length.
AllShort == \A r \in 1..Len(arg) : arg[r].alignment_length < arg[r].query_length

\* C1: chimera branch: one record per interval, in interval order, each the
\* best hit by (e_val, alignment_length descending, input order) among the
\* hits inside the interval, which are never none; all tagged chimera.
C1_ChimeraBestPerInterval ==
    (pc = "done" /\ Len(arg) >= 2 /\ AllShort /\ Len(coverages) > 1) =>
        /\ Len(out_df) = Len(coverages)
        /\ \A m \in 1..Len(coverages) :
              /\ Within(arg, coverages[m]) # <<>>
              /\ out_df[m] = SetOrigin(BestOf(Within(arg, coverages[m])), "chimera")

\* C2: with two or more hits, one of which has alignment_length equal to
\* query_length, the output is that hit with the lowest e_val, the earliest in
\* the input among equals, alone and tagged single.
C2_FullLengthPriority ==
    (pc = "done" /\ Len(arg) >= 2 /\ FullLength(arg) # {}) =>
        out_df = <<SetOrigin(LowestEVal(arg, FullLength(arg)), "single")>>

\* C3: with two or more hits, none of full length and one longer than the
\* query, the output is the longer hit with the lowest e_val, the earliest in
\* the input among equals, alone and tagged single.
C3_OverLengthFallback ==
    (pc = "done" /\ Len(arg) >= 2 /\ FullLength(arg) = {} /\ OverLength(arg) # {}) =>
        out_df = <<SetOrigin(LowestEVal(arg, OverLength(arg)), "single")>>

\* C4: with two or more hits, all shorter than the query, and one interval,
\* the output is the best of all input hits by (e_val, alignment_length
\* descending, input order), alone and tagged single.
C4_SingleRegionBest ==
    (pc = "done" /\ Len(arg) >= 2 /\ AllShort /\ Len(coverages) = 1) =>
        out_df = <<SetOrigin(BestOf(arg), "single")>>

\* C5: a hit set of one hit comes back as that hit, its seven fields
\* unchanged, with origin single.
C5_SingleHitInvariance ==
    (pc = "done" /\ Len(arg) = 1) => out_df = <<SetOrigin(arg[1], "single")>>

\* C5's case: a call with one hit shorter than the query has returned.
C5_Witness ==
    /\ pc = "done"
    /\ Len(arg) = 1
    /\ arg[1].alignment_length < arg[1].query_length
    /\ out_df # <<>>

\* C8: on every path the caller's table is after the call what it was before
\* it, and the result is a new table.
C8_InputUnchanged == pc = "done" => (in_df = arg /\ returned = "new")

\* C10: the output is never empty, every record is an input hit with its
\* seven fields unchanged, and it is one record tagged single or at least two
\* records all tagged chimera.
C10_CardinalityAndTags ==
    pc = "done" =>
        /\ out_df # <<>>
        /\ \A m \in 1..Len(out_df) :
              \E r \in 1..Len(arg) : out_df[m] = SetOrigin(arg[r], out_df[m].origin)
        /\ \/ Len(out_df) = 1 /\ out_df[1].origin = "single"
           \/ Len(out_df) >= 2
              /\ \A m \in 1..Len(out_df) : out_df[m].origin = "chimera"

====
